---- MODULE Spec2Model ----
(***************************************************************************)
(* Response conformance checks of schemathesis (src/schemathesis/checks.py) *)
(*                                                                         *)
(* A Python string is modelled as a tuple of characters (status-code keys) *)
(* or a tuple of tokens (media types: the media-type token followed by its *)
(* parameter tokens).  A dict is a sequence of [key, value] entries in     *)
(* insertion order with pairwise distinct keys; an optional dict entry is  *)
(* a record [present, value].                                              *)
(***************************************************************************)
EXTENDS Integers, Sequences, FiniteSets, TLC

VARIABLES definition, raw_schema, response, results, expansion

vars == <<definition, raw_schema, response, results, expansion>>

(***************************************************************************)
(* Strings                                                                 *)
(***************************************************************************)

\* string.digits
Digits == <<"0", "1", "2", "3", "4", "5", "6", "7", "8", "9">>

IsDigit(ch) == \E i \in 1..Len(Digits) : Digits[i] = ch

DigitVal(ch) == (CHOOSE i \in 1..Len(Digits) : Digits[i] = ch) - 1

Lowers == <<"a", "b", "d", "e", "f", "l", "t", "u", "x">>

Uppers == <<"A", "B", "D", "E", "F", "L", "T", "U", "X">>

\* str.upper(), one character
UpperChar(ch) ==
    IF \E i \in 1..Len(Lowers) : Lowers[i] = ch
    THEN Uppers[CHOOSE i \in 1..Len(Lowers) : Lowers[i] = ch]
    ELSE ch

\* str.upper()
Upper(s) == [i \in 1..Len(s) |-> UpperChar(s[i])]

\* str(n) of a non-negative integer
RECURSIVE StrOfInt(_)
StrOfInt(n) ==
    IF n < 10 THEN <<Digits[n + 1]>>
    ELSE StrOfInt(n \div 10) \o <<Digits[(n % 10) + 1]>>

\* A dict key of "responses": a string or (from YAML) an integer.
StrKey(s) == [t |-> "str", s |-> s, n |-> 0]

IntKey(n) == [t |-> "int", s |-> <<>>, n |-> n]

\* str(key)
Str(key) == IF key.t = "int" THEN StrOfInt(key.n) ELSE key.s

\* int(s) returns: s is a non-empty string of digits (otherwise ValueError)
IsInt(s) == s # <<>> /\ \A i \in 1..Len(s) : IsDigit(s[i])

\* int(s) of a string of digits
RECURSIVE IntValue(_)
IntValue(s) ==
    IF s = <<>> THEN 0
    ELSE 10 * IntValue(SubSeq(s, 1, Len(s) - 1)) + DigitVal(s[Len(s)])

DEFAULT == <<"d", "e", "f", "a", "u", "l", "t">>

(***************************************************************************)
(* dict helpers                                                            *)
(***************************************************************************)

Present(v) == [present |-> TRUE, value |-> v]

Absent == [present |-> FALSE, value |-> <<>>]

\* dict.get(key, default) on an optional entry
Get(entry, default) == IF entry.present THEN entry.value ELSE default

\* key in dict
HasKey(d, key) == \E i \in 1..Len(d) : d[i].key = key

\* dict[key]
Lookup(d, key) == d[CHOOSE i \in 1..Len(d) : d[i].key = key].value

\* dict[key] = value: replaces in place, or appends
Store(d, key, value) ==
    IF HasKey(d, key)
    THEN [i \in 1..Len(d) |-> IF d[i].key = key THEN [key |-> key, value |-> value] ELSE d[i]]
    ELSE Append(d, [key |-> key, value |-> value])

(***************************************************************************)
(* Status-code pattern expansion                                           *)
(***************************************************************************)

\* mutant: str(code) is not upper-cased, a lower-case x stays literal
Chars_case_sensitive(code) ==
    [i \in 1..Len(Str(code)) |->
        IF Str(code)[i] = "X" THEN Digits ELSE <<Str(code)[i]>>]

\* chars = [list(string.digits) if digit == "X" else [digit] for digit in str(code).upper()]
Chars(code) ==
    [i \in 1..Len(Str(code)) |->
        IF Upper(Str(code))[i] = "X" THEN Digits ELSE <<Upper(Str(code))[i]>>]

\* for c in cs, for t in tails: c followed by t
PrefixedAll(cs, tails) ==
    [k \in 1..(Len(cs) * Len(tails)) |->
        <<cs[((k - 1) \div Len(tails)) + 1]>> \o tails[((k - 1) % Len(tails)) + 1]]

\* itertools.product(*chars): the rightmost position advances fastest
RECURSIVE Product(_)
Product(chars) ==
    IF chars = <<>> THEN << <<>> >>
    ELSE PrefixedAll(Head(chars), Product(Tail(chars)))

\* int("".join(expanded)) for every combination; ok = FALSE when an int() raises
IntsOf(combos) ==
    IF \A i \in 1..Len(combos) : IsInt(combos[i])
    THEN [ok |-> TRUE, values |-> [i \in 1..Len(combos) |-> IntValue(combos[i])]]
    ELSE [ok |-> FALSE, values |-> <<>>]

\* list(_expand_responses(responses)): ok = FALSE when int() raised ValueError
RECURSIVE _expand_responses(_)
_expand_responses(responses) ==
    IF responses = <<>> THEN [ok |-> TRUE, values |-> <<>>]
    ELSE LET first == IntsOf(Product(Chars(Head(responses).key)))
             rest  == _expand_responses(Tail(responses))
         IN  IF ~first.ok THEN [ok |-> FALSE, values |-> <<>>]
             ELSE [ok |-> rest.ok, values |-> IF rest.ok THEN first.values \o rest.values ELSE <<>>]

(***************************************************************************)
(* Media types.  A media-type string is <<media token, parameter tokens>>; *)
(* a token written in upper case is a different token with the same        *)
(* lower-case form.                                                        *)
(***************************************************************************)

APPLICATION_JSON == "application/json"

MixedCase == <<"Application/JSON", "TEXT/PLAIN">>

LowerCase == <<"application/json", "text/plain">>

\* str.lower(), one token
LowerToken(tok) ==
    IF \E i \in 1..Len(MixedCase) : MixedCase[i] = tok
    THEN LowerCase[CHOOSE i \in 1..Len(MixedCase) : MixedCase[i] = tok]
    ELSE tok

\* the media type without its parameters, in lower case
parse_content_type(content_type) == LowerToken(Head(content_type))

\* utils.are_content_types_equal
are_content_types_equal(source, target) ==
    parse_content_type(source) = parse_content_type(target)

\* str.startswith("application/json"): case-sensitive, parameters may follow
StartsWithJson(content_type) == Head(content_type) = APPLICATION_JSON

(***************************************************************************)
(* Response schemas and bodies                                             *)
(***************************************************************************)

\* None: the response definition carries no schema
NoSchema == [kind |-> "none", required |-> {}]

\* {}: a schema with no keywords
EmptySchema == [kind |-> "empty", required |-> {}]

\* {"type": "object", "required": [...]}
ObjectSchema(required) == [kind |-> "object", required |-> required]

\* bool(schema)
Truthy(schema) == schema.kind = "object"

\* BaseSchema._get_response_schema
_get_response_schema(response_definition) == response_definition.schema

\* jsonschema.validate(data, schema) returns normally
Valid(data, schema) == schema.required \subseteq data

(***************************************************************************)
(* Outcomes of a call                                                      *)
(***************************************************************************)

NotRun == [kind |-> "none", exc |-> "", status |-> 0, listed |-> <<>>]

Passed == [kind |-> "pass", exc |-> "", status |-> 0, listed |-> <<>>]

\* raise AssertionError(message): the message names `listed`
Failed(status, listed) ==
    [kind |-> "fail", exc |-> "AssertionError", status |-> status, listed |-> listed]

\* any other exception leaving the check
Raised(exc) == [kind |-> "error", exc |-> exc, status |-> 0, listed |-> <<>>]

(***************************************************************************)
(* The checks                                                              *)
(***************************************************************************)

\* mutant: the boundary code 500 itself is let through
not_a_server_error_strict(resp, case) ==
    IF resp.status_code > 500 THEN Failed(resp.status_code, <<>>) ELSE Passed

not_a_server_error(resp, case) ==
    IF resp.status_code >= 500 THEN Failed(resp.status_code, <<>>) ELSE Passed

\* mutant: only the first declared key is expanded
status_code_conformance_first_key(resp, case) ==
    LET responses == Get(case.endpoint.definition.responses, <<>>)
        allowed_response_statuses ==
            _expand_responses(IF responses = <<>> THEN <<>> ELSE <<Head(responses)>>)
        responses_list == [i \in 1..Len(responses) |-> Str(responses[i].key)]
    IN  IF HasKey(responses, StrKey(DEFAULT)) THEN Passed
        ELSE IF ~allowed_response_statuses.ok THEN Raised("ValueError")
        ELSE IF \A i \in 1..Len(allowed_response_statuses.values) :
                    allowed_response_statuses.values[i] # resp.status_code
             THEN Failed(resp.status_code, responses_list)
             ELSE Passed

\* mutant: the keys are expanded before "default" is looked for
status_code_conformance_eager(resp, case) ==
    LET responses == Get(case.endpoint.definition.responses, <<>>)
        allowed_response_statuses == _expand_responses(responses)
        responses_list == [i \in 1..Len(responses) |-> Str(responses[i].key)]
    IN  IF ~allowed_response_statuses.ok THEN Raised("ValueError")
        ELSE IF HasKey(responses, StrKey(DEFAULT)) THEN Passed
        ELSE IF \A i \in 1..Len(allowed_response_statuses.values) :
                    allowed_response_statuses.values[i] # resp.status_code
             THEN Failed(resp.status_code, responses_list)
             ELSE Passed

\* mutant: an endpoint without declared responses has nothing to check
status_code_conformance_lenient(resp, case) ==
    LET responses == Get(case.endpoint.definition.responses, <<>>)
        allowed_response_statuses == _expand_responses(responses)
        responses_list == [i \in 1..Len(responses) |-> Str(responses[i].key)]
    IN  IF responses = <<>> \/ HasKey(responses, StrKey(DEFAULT)) THEN Passed
        ELSE IF ~allowed_response_statuses.ok THEN Raised("ValueError")
        ELSE IF \A i \in 1..Len(allowed_response_statuses.values) :
                    allowed_response_statuses.values[i] # resp.status_code
             THEN Failed(resp.status_code, responses_list)
             ELSE Passed

status_code_conformance(resp, case) ==
    LET responses == Get(case.endpoint.definition.responses, <<>>)
        allowed_response_statuses == _expand_responses(responses)
        responses_list == [i \in 1..Len(responses) |-> Str(responses[i].key)]
    IN  IF HasKey(responses, StrKey(DEFAULT)) THEN Passed
        ELSE IF ~allowed_response_statuses.ok THEN Raised("ValueError")
        ELSE IF \A i \in 1..Len(allowed_response_statuses.values) :
                    allowed_response_statuses.values[i] # resp.status_code
             THEN Failed(resp.status_code, responses_list)
             ELSE Passed

\* mutant: the endpoint's own list wins over the schema-wide one
Produces_endpoint_first(case) ==
    LET endpoint_produces == Get(case.endpoint.definition.produces, <<>>)
    IN  IF endpoint_produces # <<>> THEN endpoint_produces
        ELSE Get(case.endpoint.schema.raw_schema.produces, <<>>)

\* the media-type list the check compares against
Produces(case) ==
    LET global_produces == Get(case.endpoint.schema.raw_schema.produces, <<>>)
    IN  IF global_produces # <<>> THEN global_produces
        ELSE Get(case.endpoint.definition.produces, <<>>)

\* mutant: only the first declared media type is compared
content_type_conformance_first_option(resp, case) ==
    LET produces == Produces(case)
        content_type == resp.headers.value
    IN  IF produces = <<>> THEN Passed
        ELSE IF ~resp.headers.present THEN Raised("KeyError")
        ELSE IF are_content_types_equal(produces[1], content_type)
             THEN Passed
             ELSE Failed(0, produces)

content_type_conformance(resp, case) ==
    LET produces == Produces(case)
        content_type == resp.headers.value
    IN  IF produces = <<>> THEN Passed
        ELSE IF ~resp.headers.present THEN Raised("KeyError")
        ELSE IF \E i \in 1..Len(produces) : are_content_types_equal(produces[i], content_type)
             THEN Passed
             ELSE Failed(0, produces)

\* {str(key): value for key, value in responses.items()}
RECURSIVE StrKeyed(_)
StrKeyed(responses) ==
    IF responses = <<>> THEN <<>>
    ELSE LET last == responses[Len(responses)]
         IN  Store(StrKeyed(SubSeq(responses, 1, Len(responses) - 1)), Str(last.key), last.value)

\* lines 76-86: resolve the schema, parse the body, validate.  Both response
\* kinds (response.json() and response.json) give the parsed body or raise.
Validate(resp, case, response_definition) ==
    LET schema == _get_response_schema(response_definition)
    IN  IF ~Truthy(schema) THEN Passed
        ELSE IF ~resp.body.parseable THEN Raised("JSONDecodeError")
        ELSE IF Valid(resp.body.fields, schema) THEN Passed
        ELSE Failed(0, <<>>)

\* mutant: the "default" entry is preferred to the exact status code
response_schema_conformance_default_first(resp, case) ==
    LET responses == StrKeyed(Get(case.endpoint.definition.responses, <<>>))
        status_code == StrOfInt(resp.status_code)
    IN  IF ~resp.headers.present THEN Raised("KeyError")
        ELSE IF ~StartsWithJson(resp.headers.value) THEN Passed
        ELSE IF HasKey(responses, DEFAULT)
             THEN Validate(resp, case, Lookup(responses, DEFAULT))
        ELSE IF HasKey(responses, status_code)
             THEN Validate(resp, case, Lookup(responses, status_code))
        ELSE Passed

response_schema_conformance(resp, case) ==
    LET responses == StrKeyed(Get(case.endpoint.definition.responses, <<>>))
        status_code == StrOfInt(resp.status_code)
    IN  IF ~resp.headers.present THEN Raised("KeyError")
        ELSE IF ~StartsWithJson(resp.headers.value) THEN Passed
        ELSE IF HasKey(responses, status_code)
             THEN Validate(resp, case, Lookup(responses, status_code))
        ELSE IF HasKey(responses, DEFAULT)
             THEN Validate(resp, case, Lookup(responses, DEFAULT))
        ELSE Passed

DEFAULT_CHECKS == <<"not_a_server_error">>

OPTIONAL_CHECKS ==
    <<"status_code_conformance", "content_type_conformance", "response_schema_conformance">>

ALL_CHECKS == DEFAULT_CHECKS \o OPTIONAL_CHECKS

(***************************************************************************)
(* Inputs: the schema data a Case refers to, and the responses received    *)
(***************************************************************************)

Entry(key, value) == [key |-> key, value |-> value]

\* response objects: without a schema, with an empty one, with a required field
NoSchemaResponse == [schema |-> NoSchema]

EmptySchemaResponse == [schema |-> EmptySchema]

IdResponse == [schema |-> ObjectSchema({"id"})]

\* the "responses" mappings of the endpoints under test
ResponsesMaps ==
    { <<>>,
      <<Entry(StrKey(<<"2", "0", "0">>), IdResponse),
        Entry(StrKey(<<"4", "0", "4">>), NoSchemaResponse)>>,
      <<Entry(StrKey(DEFAULT), IdResponse)>>,
      <<Entry(StrKey(<<"b", "a", "d">>), IdResponse), Entry(StrKey(DEFAULT), NoSchemaResponse)>>,
      <<Entry(StrKey(<<"b", "a", "d">>), IdResponse)>>,
      <<Entry(StrKey(<<"2", "0", "X">>), IdResponse), Entry(StrKey(<<"4", "0", "x">>), IdResponse)>>,
      <<Entry(StrKey(<<"5", "0", "X">>), IdResponse)>>,
      <<Entry(IntKey(200), IdResponse)>>,
      <<Entry(StrKey(<<"2", "0", "0">>), EmptySchemaResponse), Entry(StrKey(DEFAULT), IdResponse)>>,
      <<Entry(StrKey(<<"2", "0", "0">>), IdResponse), Entry(IntKey(200), NoSchemaResponse)>> }

ProducesLists ==
    { <<>>,
      << <<"application/json">> >>,
      << <<"text/plain">>, <<"application/json">> >> }

GlobalProducesLists ==
    { <<>>,
      << <<"text/plain">> >> }

\* case.endpoint.definition
Definitions ==
    { [responses |-> r, produces |-> p] :
        r \in {Absent} \cup {Present(m) : m \in ResponsesMaps},
        p \in {Absent} \cup {Present(l) : l \in ProducesLists} }

\* case.endpoint.schema.raw_schema
RawSchemas ==
    { [produces |-> p] : p \in {Absent} \cup {Present(l) : l \in GlobalProducesLists} }

StatusCodes == {200, 404, 499, 500}

ContentTypes ==
    { <<"application/json">>,
      <<"application/json", "; charset=utf-8">>,
      <<"Application/JSON">>,
      <<"text/plain">> }

Bodies ==
    { [parseable |-> FALSE, fields |-> {}],
      [parseable |-> TRUE, fields |-> {}],
      [parseable |-> TRUE, fields |-> {"id"}] }

Responses ==
    { [status_code |-> c, headers |-> h, body |-> b] :
        c \in StatusCodes,
        h \in {Absent} \cup {Present(t) : t \in ContentTypes},
        b \in Bodies }

\* the Case handed to a check
Case == [endpoint |-> [definition |-> definition, schema |-> [raw_schema |-> raw_schema]]]

NotExpanded == [done |-> FALSE, ok |-> TRUE, values |-> <<>>]

(***************************************************************************)
(* The driver calls the checks on a (response, case) pair, in any order    *)
(* and as often as it likes.                                               *)
(***************************************************************************)

Init ==
    /\ definition \in Definitions
    /\ raw_schema \in RawSchemas
    /\ response \in Responses
    /\ results = [c \in {ALL_CHECKS[i] : i \in 1..Len(ALL_CHECKS)} |-> NotRun]
    /\ expansion = NotExpanded

NotAServerError ==
    /\ results' = [results EXCEPT !["not_a_server_error"] = not_a_server_error(response, Case)]
    /\ UNCHANGED <<definition, raw_schema, response, expansion>>

StatusCodeConformance ==
    /\ results' = [results EXCEPT !["status_code_conformance"] =
                        status_code_conformance(response, Case)]
    /\ UNCHANGED <<definition, raw_schema, response, expansion>>

ContentTypeConformance ==
    /\ results' = [results EXCEPT !["content_type_conformance"] =
                        content_type_conformance(response, Case)]
    /\ UNCHANGED <<definition, raw_schema, response, expansion>>

\* mutant: the string-keyed mapping is written back into the endpoint definition
ResponseSchemaConformance_in_place ==
    /\ results' = [results EXCEPT !["response_schema_conformance"] =
                        response_schema_conformance(response, Case)]
    /\ definition' =
          [definition EXCEPT !.responses =
              Present([i \in 1..Len(StrKeyed(Get(definition.responses, <<>>))) |->
                          Entry(StrKey(StrKeyed(Get(definition.responses, <<>>))[i].key),
                                StrKeyed(Get(definition.responses, <<>>))[i].value)])]
    /\ UNCHANGED <<raw_schema, response, expansion>>

ResponseSchemaConformance ==
    /\ results' = [results EXCEPT !["response_schema_conformance"] =
                        response_schema_conformance(response, Case)]
    /\ UNCHANGED <<definition, raw_schema, response, expansion>>

Next ==
    \/ NotAServerError
    \/ StatusCodeConformance
    \/ ContentTypeConformance
    \/ ResponseSchemaConformance

Spec == Init /\ [][Next]_vars

(***************************************************************************)
(* Expansion of one declared key                                           *)
(***************************************************************************)

MaxLen == 3

PatternChars == {"0", "2", "4", "X", "x"}

Patterns == UNION { [1..n -> PatternChars] : n \in 1..MaxLen }

PatternKeys == {StrKey(p) : p \in Patterns} \cup {IntKey(n) : n \in {0, 7, 40, 404}}

InitExpand ==
    /\ definition \in { [responses |-> Present(<<Entry(k, NoSchemaResponse)>>), produces |-> Absent] :
                            k \in PatternKeys }
    /\ raw_schema = [produces |-> Absent]
    /\ response = [status_code |-> 200, headers |-> Absent,
                   body |-> [parseable |-> FALSE, fields |-> {}]]
    /\ results = [c \in {ALL_CHECKS[i] : i \in 1..Len(ALL_CHECKS)} |-> NotRun]
    /\ expansion = NotExpanded

Expand ==
    /\ ~expansion.done
    /\ LET allowed_response_statuses == _expand_responses(definition.responses.value)
       IN  expansion' = [done |-> TRUE,
                         ok |-> allowed_response_statuses.ok,
                         values |-> allowed_response_statuses.values]
    /\ UNCHANGED <<definition, raw_schema, response, results>>

NextExpand == Expand

SpecExpand == InitExpand /\ [][NextExpand]_vars

(***************************************************************************)
(* Vocabulary of the properties                                            *)
(***************************************************************************)

Result(check) == results[check]

Ran(check) == results[check].kind # "none"

DeclaredResponses == Get(definition.responses, <<>>)

HasContentType == response.headers.present

\* 10^n, for the key lengths that occur
Pow10(n) == <<1, 10, 100, 1000, 10000, 100000>>[n + 1]

\* the i-th decimal digit, from the left, of n written with len digits
DigitAt(n, len, i) == (n \div Pow10(len - i)) % 10

IsPatternChar(ch) == IsDigit(ch) \/ ch = "X" \/ ch = "x"

\* the key is a non-empty string of digits and X/x (or an integer)
IsPattern(key) ==
    /\ Str(key) # <<>>
    /\ \A i \in 1..Len(Str(key)) : IsPatternChar(Str(key)[i])

\* n is the key's pattern with every X replaced by some digit
MatchesPattern(n, key) ==
    LET s == Str(key)
    IN  /\ n \in 0..(Pow10(Len(s)) - 1)
        /\ \A i \in 1..Len(s) :
              \/ s[i] = "X"
              \/ s[i] = "x"
              \/ (IsDigit(s[i]) /\ DigitVal(s[i]) = DigitAt(n, Len(s), i))

PatternSet(key) == {n \in 0..(Pow10(Len(Str(key))) - 1) : MatchesPattern(n, key)}

Range(seq) == {seq[i] : i \in 1..Len(seq)}

HasDefault == \E i \in 1..Len(DeclaredResponses) : DeclaredResponses[i].key = StrKey(DEFAULT)

\* index of the response definition the schema check validates against: the
\* last entry whose key reads as the status code, else the "default" entry
ExactEntries ==
    {i \in 1..Len(DeclaredResponses) :
        Str(DeclaredResponses[i].key) = StrOfInt(response.status_code)}

DefaultEntries ==
    {i \in 1..Len(DeclaredResponses) : Str(DeclaredResponses[i].key) = DEFAULT}

Last(S) == CHOOSE i \in S : \A j \in S : j <= i

ChosenEntries ==
    IF ExactEntries # {} THEN {Last(ExactEntries)}
    ELSE IF DefaultEntries # {} THEN {Last(DefaultEntries)}
    ELSE {}

\* a schema to validate against exists for this response
SchemaDeclared ==
    \E i \in ChosenEntries : DeclaredResponses[i].value.schema.kind = "object"

BodyViolatesSchema ==
    \E i \in ChosenEntries :
        /\ DeclaredResponses[i].value.schema.kind = "object"
        /\ response.body.parseable
        /\ ~(DeclaredResponses[i].value.schema.required \subseteq response.body.fields)

GlobalProduces == Get(raw_schema.produces, <<>>)

EndpointProduces == Get(definition.produces, <<>>)

\* the media type of the header, parameters dropped, in lower case, is `media`
HeaderIs(media) == HasContentType /\ LowerToken(Head(response.headers.value)) = media

MatchesSome(list) ==
    HasContentType /\ \E i \in 1..Len(list) : HeaderIs(LowerToken(Head(list[i])))

(***************************************************************************)
(* C1: not_a_server_error raises an assertion failure if and only if the   *)
(* status code is >= 500, and returns normally for every code < 500,       *)
(* whatever responses the case declares.                                   *)
(***************************************************************************)
C1_ServerError ==
    Ran("not_a_server_error") =>
        /\ Result("not_a_server_error").kind = "fail" <=> response.status_code >= 500
        /\ response.status_code < 500 => Result("not_a_server_error").kind = "pass"

C1_Witness ==
    /\ Result("not_a_server_error").kind = "fail"
    /\ response.status_code = 500
    /\ HasDefault

(***************************************************************************)
(* C2: with no "default" key declared (and every declared key a digit/X    *)
(* pattern), status_code_conformance passes if and only if the status code *)
(* is in the union of the declared keys' expansions, and fails otherwise;  *)
(* with {"200", "404"} declared, 200 passes and 500 fails.                 *)
(***************************************************************************)
C2_StatusCodeMembership ==
    (/\ Ran("status_code_conformance")
     /\ ~HasDefault
     /\ \A i \in 1..Len(DeclaredResponses) : IsPattern(DeclaredResponses[i].key))
    => LET allowed == \E i \in 1..Len(DeclaredResponses) :
                          MatchesPattern(response.status_code, DeclaredResponses[i].key)
       IN  /\ Result("status_code_conformance").kind = "pass" <=> allowed
           /\ Result("status_code_conformance").kind = "fail" <=> ~allowed

Declares200And404 ==
    /\ Len(DeclaredResponses) = 2
    /\ DeclaredResponses[1].key = StrKey(<<"2", "0", "0">>)
    /\ DeclaredResponses[2].key = StrKey(<<"4", "0", "4">>)

C2_Witness ==
    /\ Declares200And404
    /\ response.status_code = 500
    /\ Result("status_code_conformance").kind = "fail"

(***************************************************************************)
(* C3: the expansion of a declared key made of digits and X (either case)  *)
(* yields exactly the integers obtained by replacing every X by each digit *)
(* and keeping the literal digits, each once: "4XX" and "4xx" give the 100 *)
(* integers 400..499, "20X" gives 200..209, "404" and 404 give {404}.      *)
(***************************************************************************)
C3_Expansion ==
    expansion.done =>
        LET key == definition.responses.value[1].key
            expected == PatternSet(key)
        IN  /\ expansion.ok
            /\ Range(expansion.values) = expected
            /\ Len(expansion.values) = Cardinality(expected)
            /\ key \in {StrKey(<<"4", "X", "X">>), StrKey(<<"4", "x", "x">>)}
                   => Range(expansion.values) = 400..499 /\ Len(expansion.values) = 100
            /\ key = StrKey(<<"2", "0", "X">>) => Range(expansion.values) = 200..209
            /\ key \in {StrKey(<<"4", "0", "4">>), IntKey(404)} => expansion.values = <<404>>

C3_Witness ==
    /\ expansion.done
    /\ definition.responses.value[1].key = StrKey(<<"4", "x", "x">>)
    /\ Len(expansion.values) = 100

(***************************************************************************)
(* C4: when "default" is among the declared keys, status_code_conformance  *)
(* passes for every status code, whatever else is declared, keys that are  *)
(* no digit/X pattern included.                                            *)
(***************************************************************************)
C4_DefaultPasses ==
    (Ran("status_code_conformance") /\ HasDefault)
        => Result("status_code_conformance").kind = "pass"

C4_Witness ==
    /\ HasDefault
    /\ \E i \in 1..Len(DeclaredResponses) : ~IsPattern(DeclaredResponses[i].key) /\ DeclaredResponses[i].key # StrKey(DEFAULT)
    /\ response.status_code = 500
    /\ Result("status_code_conformance").kind = "pass"

(***************************************************************************)
(* C5: content_type_conformance checks against the schema-wide produces    *)
(* list whenever that list is present and non-empty, and against the       *)
(* endpoint's list otherwise; with a non-empty schema-wide list a response *)
(* matching only an endpoint-level media type fails.                       *)
(***************************************************************************)
C5_ProducesPrecedence ==
    Ran("content_type_conformance") =>
        LET r == Result("content_type_conformance")
        IN  /\ GlobalProduces # <<>> =>
                  /\ r.kind = "pass" <=> MatchesSome(GlobalProduces)
                  /\ r.kind = "fail" => r.listed = GlobalProduces
            /\ GlobalProduces = <<>> =>
                  /\ r.kind = "pass" <=> (EndpointProduces = <<>> \/ MatchesSome(EndpointProduces))
                  /\ r.kind = "fail" => r.listed = EndpointProduces

C5_Witness ==
    /\ GlobalProduces = << <<"text/plain">> >>
    /\ EndpointProduces = << <<"text/plain">>, <<"application/json">> >>
    /\ HasContentType
    /\ response.headers.value = <<"application/json">>
    /\ Result("content_type_conformance").kind = "fail"
    /\ Result("content_type_conformance").listed = GlobalProduces

(***************************************************************************)
(* C6: when the applicable produces list is non-empty, the check passes if *)
(* and only if the Content-Type header, parameters stripped and compared   *)
(* case-insensitively, equals some entry of the list, at any position; a   *)
(* header matching none is an assertion failure listing every declared     *)
(* media type.                                                             *)
(***************************************************************************)
ApplicableProduces == IF GlobalProduces # <<>> THEN GlobalProduces ELSE EndpointProduces

C6_ContentTypeMatch ==
    (Ran("content_type_conformance") /\ ApplicableProduces # <<>>) =>
        LET r == Result("content_type_conformance")
        IN  /\ r.kind = "pass" <=> MatchesSome(ApplicableProduces)
            /\ (HasContentType /\ ~MatchesSome(ApplicableProduces))
                  => r.kind = "fail" /\ r.listed = ApplicableProduces
            /\ (/\ ApplicableProduces = << <<"application/json">> >>
                /\ HasContentType
                /\ response.headers.value = <<"application/json", "; charset=utf-8">>)
                  => r.kind = "pass"
            /\ (/\ ApplicableProduces = << <<"application/json">> >>
                /\ HasContentType
                /\ response.headers.value = <<"text/plain">>)
                  => r.kind = "fail" /\ <<"application/json">> \in Range(r.listed)

C6_Witness ==
    /\ GlobalProduces = <<>>
    /\ EndpointProduces = << <<"text/plain">>, <<"application/json">> >>
    /\ HasContentType
    /\ response.headers.value = <<"application/json", "; charset=utf-8">>
    /\ Result("content_type_conformance").kind = "pass"

(***************************************************************************)
(* C7: response_schema_conformance passes without looking at the body when *)
(* the Content-Type does not begin with application/json; otherwise it     *)
(* validates against the entry whose key reads as the exact status code,   *)
(* else against "default", else passes; wildcard keys are not matched.  It *)
(* fails exactly when the body violates the chosen schema and passes when  *)
(* the chosen definition has no schema.                                    *)
(***************************************************************************)
C7_SchemaLookup ==
    Ran("response_schema_conformance") =>
        LET r == Result("response_schema_conformance")
            json == HasContentType /\ Head(response.headers.value) = "application/json"
        IN  /\ (HasContentType /\ ~json) => r.kind = "pass"
            /\ (json /\ ChosenEntries = {}) => r.kind = "pass"
            /\ (json /\ ~SchemaDeclared) => r.kind = "pass"
            /\ (json /\ SchemaDeclared /\ response.body.parseable /\ ~BodyViolatesSchema)
                  => r.kind = "pass"
            /\ r.kind = "fail" <=> (json /\ BodyViolatesSchema)

C7_Witness ==
    /\ Len(DeclaredResponses) = 1
    /\ DeclaredResponses[1].key = StrKey(<<"5", "0", "X">>)
    /\ response.status_code = 500
    /\ HasContentType
    /\ response.headers.value = <<"application/json">>
    /\ response.body = [parseable |-> TRUE, fields |-> {}]
    /\ Result("response_schema_conformance").kind = "pass"

(***************************************************************************)
(* C8: missing schema data is nothing to check.  As claimed: with no       *)
(* declared responses status_code_conformance passes for every status      *)
(* code, with no produces at either level content_type_conformance passes, *)
(* and with no schema for the status code response_schema_conformance does *)
(* not fail.                                                               *)
(***************************************************************************)
C8_MissingDataPasses ==
    /\ (Ran("status_code_conformance") /\ DeclaredResponses = <<>>)
          => Result("status_code_conformance").kind = "pass"
    /\ (Ran("content_type_conformance") /\ GlobalProduces = <<>> /\ EndpointProduces = <<>>)
          => Result("content_type_conformance").kind = "pass"
    /\ (Ran("response_schema_conformance") /\ ~SchemaDeclared)
          => Result("response_schema_conformance").kind # "fail"

(***************************************************************************)
(* C8 as amended: with no declared responses status_code_conformance fails *)
(* for every status code (the allowed set is empty); with no produces at   *)
(* either level content_type_conformance passes; with no schema for the    *)
(* status code response_schema_conformance never fails, and passes         *)
(* whenever the response carries a Content-Type.                           *)
(***************************************************************************)
C8_MissingData ==
    /\ (Ran("status_code_conformance") /\ DeclaredResponses = <<>>)
          => /\ Result("status_code_conformance").kind = "fail"
             /\ Result("status_code_conformance").status = response.status_code
             /\ Result("status_code_conformance").listed = <<>>
    /\ (Ran("content_type_conformance") /\ GlobalProduces = <<>> /\ EndpointProduces = <<>>)
          => Result("content_type_conformance").kind = "pass"
    /\ (Ran("response_schema_conformance") /\ ~SchemaDeclared)
          => /\ Result("response_schema_conformance").kind # "fail"
             /\ HasContentType => Result("response_schema_conformance").kind = "pass"

C8_Witness ==
    /\ ~definition.responses.present
    /\ response.status_code = 200
    /\ Result("status_code_conformance").kind = "fail"
    /\ GlobalProduces = <<>>
    /\ EndpointProduces = <<>>
    /\ Result("content_type_conformance").kind = "pass"

(***************************************************************************)
(* C9: every check either returns normally or raises an assertion failure; *)
(* no other error leaves a check.                                          *)
(***************************************************************************)
C9_OnlyAssertionFailures ==
    \A i \in 1..Len(ALL_CHECKS) : Result(ALL_CHECKS[i]).kind \in {"none", "pass", "fail"}

(***************************************************************************)
(* C10: no invocation of a check changes the endpoint definition, the      *)
(* schema's raw_schema or the response, and every recorded outcome is the  *)
(* outcome of that check on the pair, however often and in whatever order  *)
(* the checks are invoked.                                                 *)
(***************************************************************************)
OutcomeAlone(check) ==
    CASE check = "not_a_server_error" -> not_a_server_error(response, Case)
      [] check = "status_code_conformance" -> status_code_conformance(response, Case)
      [] check = "content_type_conformance" -> content_type_conformance(response, Case)
      [] check = "response_schema_conformance" -> response_schema_conformance(response, Case)

C10_Frame ==
    /\ [][/\ definition' = definition
          /\ raw_schema' = raw_schema
          /\ response' = response
          /\ \A i \in 1..Len(ALL_CHECKS) :
                Ran(ALL_CHECKS[i]) => results'[ALL_CHECKS[i]] = results[ALL_CHECKS[i]]]_vars
    /\ [](\A i \in 1..Len(ALL_CHECKS) :
              Ran(ALL_CHECKS[i]) => Result(ALL_CHECKS[i]) = OutcomeAlone(ALL_CHECKS[i]))

C10_Witness ==
    /\ \A i \in 1..Len(ALL_CHECKS) : Ran(ALL_CHECKS[i])
    /\ Len(DeclaredResponses) = 2
    /\ DeclaredResponses[2].key = IntKey(200)
    /\ EndpointProduces # <<>>

====
